---- MODULE Spec2Model ----
(***************************************************************************)
(* Takeoff listings backend: the auth middleware (src/middleware/auth.js)  *)
(* and the takeoff controller (src/controllers/takeoffController.js).      *)
(*                                                                         *)
(* Spec      : concurrent create / update / delete requests against the    *)
(*             document store, the remote media store and the local        *)
(*             uploads directory; every await of a handler is a step, so   *)
(*             requests interleave at the awaits.                          *)
(* SpecGuard : the two middleware functions applied to one request.        *)
(* SpecList  : getAllTakeoffs applied to one stored collection and query.  *)
(***************************************************************************)
EXTENDS Integers, Sequences, FiniteSets, TLC

VARIABLES
    isServerless,   \* takeoffController.js:9  the deployment-mode flag
    takeoffs,       \* the Takeoff collection: record id -> document
    cloud,          \* public ids of the objects the remote media store holds
    nextId,         \* next fresh document id the store hands out
    req,            \* per request: its inputs, its position, its response
    gone,           \* history: record id -> public ids it referenced when removed
    guard,          \* SpecGuard: the request object the middleware runs on
    list,           \* SpecList: stored collection, query and response
    disk,           \* paths of the temporary files in the local uploads directory
    now             \* Date.now(): the millisecond clock

vars == <<isServerless, takeoffs, cloud, nextId, req, gone, guard, list, disk, now>>

----------------------------------------------------------------------------
(* Bounds of the model *)

MaxReq   == 2      \* requests issued in one behaviour
MaxRec   == 1      \* documents created in one behaviour
MaxFiles == 2      \* files attached in one behaviour, all requests together,
                   \* in disk mode (three awaits a file)
MaxBufFiles == 3   \* the same in buffer mode (one await a file)
MaxTick  == 1      \* milliseconds that pass in one behaviour

Requests == 1..MaxReq
\* document ids: 1 is the document the store may hold at start, the
\* created ones follow
Ids      == 1..(MaxRec + 1)

PDF   == "application/pdf"
DOCX  == "application/msword"
Mimes == {PDF, DOCX}

----------------------------------------------------------------------------
(* Auth guard: src/middleware/auth.js *)

\* jwt.verify(token, secret): the tokens of the model and what verification
\* makes of them.  A token that does not verify makes jwt.verify throw.
Tokens == {"t.admin", "t.user", "t.norole", "t.expired", "t.forged"}

JwtVerifies(token) == token \in {"t.admin", "t.user", "t.norole"}

\* the decoded claims; role "" stands for a payload without a role claim
JwtDecoded(token) ==
    [present |-> TRUE,
     role    |-> CASE token = "t.admin" -> "admin"
                   [] token = "t.user"  -> "user"
                   [] OTHER             -> ""]

NoUser == [present |-> FALSE, role |-> ""]

\* req.headers['authorization'] after split(' '): <<>> is an absent header
HeaderToken(authHeader) ==
    IF authHeader # <<>> /\ Len(authHeader) >= 2 THEN authHeader[2] ELSE ""

\* authenticate as it would be if a token that fails verification were
\* passed on with next()
authenticateMut(authHeader, user) ==
    LET token == HeaderToken(authHeader) IN
    IF token = ""
    THEN [status |-> 401, next |-> 0, user |-> user]
    ELSE IF JwtVerifies(token)
         THEN [status |-> 0, next |-> 1, user |-> JwtDecoded(token)]
         ELSE [status |-> 0, next |-> 1, user |-> user]

\* module.exports (authenticate): the response it sends (0: none), the
\* number of times it calls next(), and req.user afterwards
authenticate(authHeader, user) ==
    LET token == HeaderToken(authHeader) IN
    IF token = ""
    THEN [status |-> 401, next |-> 0, user |-> user]
    ELSE IF JwtVerifies(token)
         THEN [status |-> 0, next |-> 1, user |-> JwtDecoded(token)]
         ELSE [status |-> 401, next |-> 0, user |-> user]

\* adminOnly as it would be without the role comparison
adminOnlyMut(user) ==
    IF ~user.present
    THEN [status |-> 403, next |-> 0]
    ELSE [status |-> 0, next |-> 1]

\* adminOnly: the response it sends (0: none) and its calls of next()
adminOnly(user) ==
    IF ~user.present \/ user.role # "admin"
    THEN [status |-> 403, next |-> 0]
    ELSE [status |-> 0, next |-> 1]

----------------------------------------------------------------------------
(* Routing: which guards precede a handler *)

Methods == {"POST", "PUT", "DELETE"}

\* DELETE /takeoffs/:id runs authenticate and adminOnly; POST and PUT run
\* authenticate alone
RouteAdmin(method) == method = "DELETE"

\* the guards of a route run synchronously, one calling the next
RunGuards(method, authHeader) ==
    LET a == authenticate(authHeader, NoUser) IN
    IF a.next = 0
    THEN [status |-> a.status, authNext |-> 0, user |-> a.user, handler |-> FALSE]
    ELSE IF RouteAdmin(method)
         THEN LET b == adminOnly(a.user) IN
              [status |-> b.status, authNext |-> a.next, user |-> a.user,
               handler |-> b.next = 1]
         ELSE [status |-> 0, authNext |-> a.next, user |-> a.user, handler |-> TRUE]

----------------------------------------------------------------------------
(* Requests *)

\* authorization headers the requests of Spec carry
MainHeaders(method) ==
    {<<>>, <<"Bearer", "t.admin">>, <<"Bearer", "t.forged">>}
        \cup IF method = "DELETE" THEN {<<"Bearer", "t.user">>} ELSE {}

\* result.public_id.  In disk mode the media store picks it, a new one for
\* every upload: the k-th object request r uploads is <<r, k>>.  In buffer
\* mode it is `${Date.now()}-${originalname}`, the clock read when the
\* upload is started: <<stamp, originalname>>, the same for two files of one
\* name started in one millisecond.  <<0, k>> are the objects of the
\* document the store holds at start.
NoPid == <<0, 0>>

FreshPid(r) ==
    IF isServerless
    THEN <<req[r].stamp,
           (IF req[r].grp = "files" THEN req[r].files[req[r].i]
                                    ELSE req[r].pdfPreview[req[r].i]).originalname>>
    ELSE <<r, Cardinality(req[r].uploaded \cup req[r].previews) + 1>>

\* a multer file: originalname is its position in the field-group
FileLists(n) ==
    UNION {[1..k -> Mimes] : k \in 0..n}

\* the documents an earlier run may have left in the store, with the
\* remote objects they reference: none, or one with an attachment in each
\* collection
Seeded ==
    [exists |-> TRUE,
     files |-> <<[pid |-> <<0, 1>>, name |-> 1, isPdf |-> FALSE, preview |-> NoPid]>>,
     pdfPreview |-> <<[pid |-> <<0, 2>>, name |-> 1, isPdf |-> TRUE, preview |-> NoPid]>>]

AsFiles(mimes) ==
    [k \in 1..Len(mimes) |-> [originalname |-> k, mimetype |-> mimes[k]]]

Absent == [exists |-> FALSE, files |-> <<>>, pdfPreview |-> <<>>]

IdleReq ==
    [method |-> "", id |-> 0, header |-> <<>>, user |-> NoUser, pc |-> "idle",
     files |-> <<>>, pdfPreview |-> <<>>, grp |-> "", i |-> 0, result |-> NoPid,
     nfiles |-> 0,
     accFiles |-> <<>>, accPdf |-> <<>>, snap |-> <<>>, status |-> 0,
     authNext |-> 0, dbTouched |-> FALSE, cloudTouched |-> FALSE,
     uploaded |-> {}, previews |-> {}, genCalls |-> {}, genFail |-> {}, upFail |-> FALSE,
     dbFail |-> FALSE, stamp |-> 0, undeleted |-> {}, rmFail |-> {}]

\* files attached by requests 1..n
RECURSIVE Attached(_, _)
Attached(rq, n) == IF n = 0 THEN 0 ELSE rq[n].nfiles + Attached(rq, n - 1)

\* res.status(code).json(...): the request has responded; the locals of
\* its handler are gone, what it did to the stores is kept as history
Respond(q, code) ==
    [q EXCEPT !.pc = "done", !.status = code,
              !.files = <<>>, !.pdfPreview = <<>>, !.grp = "", !.i = 0,
              !.result = NoPid, !.accFiles = <<>>, !.accPdf = <<>>, !.snap = <<>>,
              !.stamp = 0]

\* Date.now() of uploadBufferToCloudinary's public_id, read when the
\* upload of a file is started; the disk branch does not read the clock
Stamp == IF isServerless THEN now ELSE 0

\* the two for-loops of createTakeoff / updateTakeoff: the upload of the
\* file after position (grp, i) is started, or the save once both
\* field-groups are exhausted
NextFile(q, grp, i) ==
    IF grp = "files" /\ i < Len(q.files)
    THEN [q EXCEPT !.grp = "files", !.i = i + 1, !.pc = "upload", !.stamp = Stamp]
    ELSE IF grp = "files" /\ Len(q.pdfPreview) > 0
    THEN [q EXCEPT !.grp = "pdfPreview", !.i = 1, !.pc = "upload", !.stamp = Stamp]
    ELSE IF grp = "pdfPreview" /\ i < Len(q.pdfPreview)
    THEN [q EXCEPT !.grp = "pdfPreview", !.i = i + 1, !.pc = "upload",
                   !.stamp = Stamp]
    ELSE [q EXCEPT !.pc = "save"]

CurFile(q) == IF q.grp = "files" THEN q.files[q.i] ELSE q.pdfPreview[q.i]

\* the disk branch as it would be if the pdfPreview loop did not look at
\* the MIME type
WantsPreviewMut(q) ==
    ~isServerless /\ (q.grp = "pdfPreview" \/ CurFile(q).mimetype = PDF)

\* `if (mimetype === 'application/pdf')` of the disk branch, both field-groups
WantsPreview(q) == ~isServerless /\ CurFile(q).mimetype = PDF

\* isPdf of the attachment: set from the MIME type in `files`, the literal
\* true in `pdfPreview`
IsPdf(q) == IF q.grp = "files" THEN CurFile(q).mimetype = PDF ELSE TRUE

\* files.push({...}) / pdfPreview.push({...}), then on to the next file;
\* preview is the public id behind firstPagePreviewUrl, NoPid for null
Push(q, preview) ==
    LET att == [pid |-> q.result, name |-> CurFile(q).originalname,
                isPdf |-> IsPdf(q), preview |-> preview]
        q1  == IF q.grp = "files"
               THEN [q EXCEPT !.accFiles = Append(@, att)]
               ELSE [q EXCEPT !.accPdf = Append(@, att)]
    IN NextFile(q1, q.grp, q.i)

\* a rejected upload: the per-file catch rethrows, the handler's catch
\* answers 500 (the error is no ValidationError)
UploadFailed(q) == Respond([q EXCEPT !.upFail = TRUE], 500)

\* the outcomes of the rasterizer: "page": a page was written and the
\* answer is a non-empty array, "object": a page was written and the answer
\* is a single result object (it has no length), "empty": no page data,
\* "missing": the PDF is not on disk, "throws": the renderer fails
RasterOutcomes == {"page", "object", "empty", "missing", "throws"}

\* convert(1) has written the page into the uploads directory
PageWritten(outcome) == outcome \in {"page", "object"}

\* generatePdfPreview as it would be without its try/catch
generatePdfPreviewMut(outcome) ==
    IF outcome = "page" THEN "path"
    ELSE IF outcome = "throws" THEN "throws" ELSE "null"

\* generatePdfPreview: what the caller gets for each outcome, a path or null
generatePdfPreview(outcome) == IF outcome = "page" THEN "path" ELSE "null"

\* position of the current file among the files of its request, the
\* `files` group first
Ordinal(q) == IF q.grp = "files" THEN q.i ELSE Len(q.files) + q.i

\* filePath: file.path / pdf.path made absolute; the upload middleware
\* stores every file of a request under a path of its own
FilePath(r, q) == <<r, Ordinal(q), "file">>

\* previewPath: path.join(path.dirname(outputPath), pageData[0].name), the
\* page the rasterizer wrote with saveFilename "preview" into the directory
\* of the source file: preview.1.png in the uploads directory, whatever the
\* source file and the request
PreviewPath == <<0, 1, "png">>

\* the files the upload middleware has written for a request with n files
\* by the time its handler starts
Stored(r, n) == {<<r, k, "file">> : k \in 1..n}

\* safeDeleteFile(filePath) on the directory contents d: in disk mode an
\* existing file is unlinked; unlinkSync may throw, which is logged and
\* swallowed, and the file stays
safeDeleteFile(d, filePath, unlinkThrows) ==
    IF ~isServerless /\ filePath \in d /\ ~unlinkThrows THEN d \ {filePath} ELSE d

\* history of a safeDeleteFile call: a path whose unlink threw is logged,
\* any other is no longer a file the request has yet to delete
Logged(q, d, filePath, unlinkThrows) ==
    IF ~isServerless /\ filePath \in d /\ unlinkThrows
    THEN [q EXCEPT !.rmFail = @ \cup {filePath}]
    ELSE [q EXCEPT !.undeleted = @ \ {filePath}]

\* the variables of SpecGuard and SpecList while they are not running
NoGuard == [chain |-> <<>>, header |-> <<>>, user |-> NoUser, k |-> 0,
            status |-> 0, authNext |-> 0, adminNext |-> 0, ran |-> <<>>]

NoList == [docs |-> <<>>, query |-> <<>>, pc |-> "off", status |-> 0, body |-> <<>>]

\* the process has started in either mode, against a store that is empty
\* or holds one document left by an earlier run
Init ==
    /\ isServerless \in BOOLEAN
    /\ takeoffs \in {[id \in Ids |-> Absent],
                     [id \in Ids |-> IF id = 1 THEN Seeded ELSE Absent]}
    /\ cloud = IF takeoffs[1].exists THEN {<<0, 1>>, <<0, 2>>} ELSE {}
    /\ nextId = 2
    /\ req = [r \in Requests |-> IdleReq]
    /\ gone = [id \in Ids |-> {}]
    /\ guard = NoGuard
    /\ list = NoList
    /\ disk = {}
    /\ now = 1

\* files the requests of one behaviour attach, all together
FileBudget == IF isServerless THEN MaxBufFiles ELSE MaxFiles

\* a request arrives and its guards run; a request that passes them enters
\* its handler, which runs to its first await; in disk mode its files are
\* in the uploads directory by then
Arrive(r) ==
    /\ req[r].pc = "idle"
    /\ IF r = 1 THEN TRUE ELSE req[r - 1].pc # "idle"
    /\ \E method \in Methods, id \in Ids,
          fs \in FileLists(FileBudget), ps \in FileLists(FileBudget) :
      \E header \in MainHeaders(method) :
        /\ Len(fs) + Len(ps) + Attached(req, MaxReq) <= FileBudget
        /\ method = "POST" =>
              Cardinality({s \in Requests : req[s].method = "POST"}) < MaxRec
        /\ method = "DELETE" => fs = <<>> /\ ps = <<>>
        /\ LET g  == RunGuards(method, header)
               q0 == [IdleReq EXCEPT !.method = method,
                         !.id = IF method = "POST" THEN 0 ELSE id,
                         !.header = header, !.user = g.user,
                         !.authNext = g.authNext,
                         !.files = AsFiles(fs), !.pdfPreview = AsFiles(ps),
                         !.nfiles = Len(fs) + Len(ps)]
           IN /\ req' = [req EXCEPT ![r] =
                     IF ~g.handler THEN Respond(q0, g.status)
                     ELSE IF method = "DELETE" THEN [q0 EXCEPT !.pc = "find"]
                     ELSE NextFile(q0, "files", 0)]
              /\ disk' = IF g.handler /\ ~isServerless
                         THEN disk \cup Stored(r, Len(fs) + Len(ps))
                         ELSE disk
    /\ UNCHANGED <<isServerless, takeoffs, cloud, nextId, gone, guard, list, now>>

\* await uploadToCloudinary(filePath, 'raw') / uploadBufferToCloudinary(...)
\* of the current file, and what follows it up to the next await; the
\* upload is rejected when the media store fails or, in disk mode, when the
\* file was not on disk as the upload was started
Upload(r) ==
    /\ req[r].pc = "upload"
    /\ \/ /\ cloud' = cloud \cup {FreshPid(r)}
          /\ \E unlinkThrows \in BOOLEAN :
             LET filePath == FilePath(r, req[r])
                 q1 == [req[r] EXCEPT !.result = FreshPid(r),
                           !.uploaded = @ \cup {FreshPid(r)}, !.cloudTouched = TRUE,
                           !.undeleted = IF isServerless THEN @ ELSE @ \cup {filePath}]
             IN IF WantsPreview(q1)
                THEN /\ req' = [req EXCEPT ![r] =
                            [q1 EXCEPT !.pc = "gen",
                                       !.genCalls = @ \cup {<<q1.grp, q1.i>>}]]
                     /\ disk' = disk
                ELSE /\ req' = [req EXCEPT ![r] =
                            Push(Logged(q1, disk, filePath, unlinkThrows), NoPid)]
                     /\ disk' = safeDeleteFile(disk, filePath, unlinkThrows)
       \/ /\ req' = [req EXCEPT ![r] = UploadFailed(@)]
          /\ UNCHANGED <<cloud, disk>>
    /\ UNCHANGED <<isServerless, takeoffs, nextId, gone, guard, list, now>>

\* await generatePdfPreview(filePath, filePath); a null preview path goes
\* on to safeDeleteFile(filePath) and the push
GeneratePreview(r) ==
    /\ req[r].pc = "gen"
    /\ \E outcome \in RasterOutcomes, unlinkThrows \in BOOLEAN :
        LET got == generatePdfPreview(outcome)
            filePath == FilePath(r, req[r])
            q1  == [req[r] EXCEPT !.genFail =
                       IF outcome # "page" THEN @ \cup {<<req[r].grp, req[r].i>>} ELSE @]
            d1  == IF PageWritten(outcome) THEN disk \cup {PreviewPath} ELSE disk
        IN CASE got = "path" ->
                  /\ req' = [req EXCEPT ![r] = [q1 EXCEPT !.pc = "upPrev"]]
                  /\ disk' = d1
             [] got = "null" ->
                  /\ req' = [req EXCEPT ![r] =
                         Push(Logged(q1, d1, filePath, unlinkThrows), NoPid)]
                  /\ disk' = safeDeleteFile(d1, filePath, unlinkThrows)
             [] OTHER ->
                  /\ req' = [req EXCEPT ![r] = Respond(q1, 500)]
                  /\ disk' = d1
    /\ UNCHANGED <<isServerless, takeoffs, cloud, nextId, gone, guard, list, now>>

\* await uploadToCloudinary(previewPath, 'image', 'pdf-previews'), then
\* safeDeleteFile(previewPath), safeDeleteFile(filePath) and the push.
\* fs.existsSync is tested when the upload is started, right after the page
\* was written, never when it completes: the upload may succeed after
\* another request has removed the shared preview.  A rejected upload
\* leaves the per-file try before either deletion.
UploadPreview(r) ==
    /\ req[r].pc = "upPrev"
    /\ \/ /\ cloud' = cloud \cup {FreshPid(r)}
          /\ \E previewThrows \in BOOLEAN, unlinkThrows \in BOOLEAN :
             LET previewPath == PreviewPath
                 filePath == FilePath(r, req[r])
                 d1 == safeDeleteFile(disk, previewPath, previewThrows)
                 q1 == [req[r] EXCEPT !.previews = @ \cup {FreshPid(r)},
                                      !.undeleted = @ \cup {previewPath}]
                 q2 == Logged(q1, disk, previewPath, previewThrows)
             IN /\ req' = [req EXCEPT ![r] =
                       Push(Logged(q2, d1, filePath, unlinkThrows), FreshPid(r))]
                /\ disk' = safeDeleteFile(d1, filePath, unlinkThrows)
       \/ /\ req' = [req EXCEPT ![r] = UploadFailed(@)]
          /\ UNCHANGED <<cloud, disk>>
    /\ UNCHANGED <<isServerless, takeoffs, nextId, gone, guard, list, now>>

\* await takeoff.save() of createTakeoff and its response
Save(r) ==
    /\ req[r].pc = "save"
    /\ req[r].method = "POST"
    /\ \/ /\ takeoffs' = [takeoffs EXCEPT ![nextId] =
                 [exists |-> TRUE, files |-> req[r].accFiles,
                  pdfPreview |-> req[r].accPdf]]
          /\ nextId' = nextId + 1
          /\ req' = [req EXCEPT ![r] =
                 Respond([@ EXCEPT !.id = nextId, !.dbTouched = TRUE], 201)]
       \/ /\ req' = [req EXCEPT ![r] = Respond([@ EXCEPT !.dbFail = TRUE], 400)]
          /\ UNCHANGED <<takeoffs, nextId>>
       \/ /\ req' = [req EXCEPT ![r] = Respond([@ EXCEPT !.dbFail = TRUE], 500)]
          /\ UNCHANGED <<takeoffs, nextId>>
    /\ UNCHANGED <<isServerless, cloud, gone, guard, list, disk, now>>

\* the update as it would be if it set the collections instead of pushing
PushEachMut(doc, files, pdfPreview) ==
    [doc EXCEPT !.files = IF files = <<>> THEN @ ELSE files,
                !.pdfPreview = IF pdfPreview = <<>> THEN @ ELSE pdfPreview]

\* $push: {files: {$each: files}, pdfPreview: {$each: pdfPreview}}
PushEach(doc, files, pdfPreview) ==
    [doc EXCEPT !.files = @ \o files, !.pdfPreview = @ \o pdfPreview]

\* await Takeoff.findByIdAndUpdate(id, update, {new: true}) of updateTakeoff
\* and its response: 200, 404 for no such record, 400 when the store
\* rejects with a ValidationError, 500 for any other rejection
Update(r) ==
    /\ req[r].pc = "save"
    /\ req[r].method = "PUT"
    /\ \/ /\ takeoffs[req[r].id].exists
          /\ takeoffs' = [takeoffs EXCEPT ![req[r].id] =
                 PushEach(@, req[r].accFiles, req[r].accPdf)]
          /\ req' = [req EXCEPT ![r] = Respond([@ EXCEPT !.dbTouched = TRUE], 200)]
       \/ /\ ~takeoffs[req[r].id].exists
          /\ req' = [req EXCEPT ![r] = Respond(@, 404)]
          /\ UNCHANGED takeoffs
       \/ /\ req' = [req EXCEPT ![r] = Respond([@ EXCEPT !.dbFail = TRUE], 400)]
          /\ UNCHANGED takeoffs
       \/ /\ req' = [req EXCEPT ![r] = Respond([@ EXCEPT !.dbFail = TRUE], 500)]
          /\ UNCHANGED takeoffs
    /\ UNCHANGED <<isServerless, cloud, nextId, gone, guard, list, disk, now>>

\* the public ids deleteTakeoff destroys: takeoff.files then
\* takeoff.pdfPreview, those with a cloudinaryPublicId
PublicIds(doc) ==
    LET all == doc.files \o doc.pdfPreview
        has(a) == a.pid # NoPid
    IN [k \in 1..Len(SelectSeq(all, has)) |-> SelectSeq(all, has)[k].pid]

Range(s) == {s[k] : k \in DOMAIN s}

\* await Takeoff.findById(req.params.id) of deleteTakeoff
Find(r) ==
    /\ req[r].pc = "find"
    /\ \/ /\ takeoffs[req[r].id].exists
          /\ LET ids == PublicIds(takeoffs[req[r].id])
             IN req' = [req EXCEPT ![r] =
                    [@ EXCEPT !.snap = ids,
                              !.pc = IF ids = <<>> THEN "remove" ELSE "destroy"]]
       \/ /\ ~takeoffs[req[r].id].exists
          /\ req' = [req EXCEPT ![r] = Respond(@, 404)]
       \/ req' = [req EXCEPT ![r] = Respond([@ EXCEPT !.dbFail = TRUE], 500)]
    /\ UNCHANGED <<isServerless, takeoffs, cloud, nextId, gone, guard, list, disk, now>>

\* await cloudinary.uploader.destroy(publicId, {resource_type: 'raw'})
Destroy(r) ==
    /\ req[r].pc = "destroy"
    /\ \/ /\ cloud' = cloud \ {Head(req[r].snap)}
          /\ req' = [req EXCEPT ![r] =
                 [@ EXCEPT !.snap = Tail(@), !.cloudTouched = TRUE,
                           !.pc = IF Tail(req[r].snap) = <<>>
                                  THEN "remove" ELSE "destroy"]]
       \/ /\ req' = [req EXCEPT ![r] = Respond([@ EXCEPT !.upFail = TRUE], 500)]
          /\ UNCHANGED cloud
    /\ UNCHANGED <<isServerless, takeoffs, nextId, gone, guard, list, disk, now>>

\* await takeoff.deleteOne() and the confirmation
Remove(r) ==
    /\ req[r].pc = "remove"
    /\ \/ /\ takeoffs' = [takeoffs EXCEPT ![req[r].id] = Absent]
          /\ gone' = IF takeoffs[req[r].id].exists
                     THEN [gone EXCEPT ![req[r].id] =
                              Range(PublicIds(takeoffs[req[r].id]))]
                     ELSE gone
          /\ req' = [req EXCEPT ![r] = Respond([@ EXCEPT !.dbTouched = TRUE], 200)]
       \/ /\ req' = [req EXCEPT ![r] = Respond([@ EXCEPT !.dbFail = TRUE], 500)]
          /\ UNCHANGED <<takeoffs, gone>>
    /\ UNCHANGED <<isServerless, cloud, nextId, guard, list, disk, now>>

\* a millisecond passes; the clock is read in buffer mode only
Tick ==
    /\ isServerless
    /\ now <= MaxTick
    /\ now' = now + 1
    /\ UNCHANGED <<isServerless, takeoffs, cloud, nextId, req, gone, guard, list, disk>>

Next ==
    \/ Tick
    \/ \E r \in Requests :
        \/ Arrive(r)
        \/ Upload(r)
        \/ GeneratePreview(r)
        \/ UploadPreview(r)
        \/ Save(r)
        \/ Update(r)
        \/ Find(r)
        \/ Destroy(r)
        \/ Remove(r)

Spec == Init /\ [][Next]_vars

----------------------------------------------------------------------------
(* Properties of Spec *)

Attachments(doc) == Range(doc.files) \cup Range(doc.pdfPreview)

\* C1: a record that has been removed from the store referenced, at its
\* removal, only attachments whose remote object no longer exists: no record
\* is absent from reads while the remote object of one of its attachments
\* is still in the media store.
C1_NoObjectOutlivesItsRecord ==
    \A id \in Ids : ~takeoffs[id].exists => gone[id] \cap cloud = {}

\* C2: a DELETE request without a bearer token, or with a token that does
\* not verify, is answered 401 by authenticate, next() is never called, and
\* the request touches neither the document store nor the media store.
C2_UnauthenticatedDelete ==
    \A r \in Requests :
        (/\ req[r].pc # "idle"
         /\ req[r].method = "DELETE"
         /\ ~JwtVerifies(HeaderToken(req[r].header)))
        => /\ req[r].pc = "done"
           /\ req[r].status = 401
           /\ req[r].authNext = 0
           /\ ~req[r].dbTouched
           /\ ~req[r].cloudTouched

C2_Witness ==
    \E r \in Requests :
        /\ req[r].pc = "done"
        /\ req[r].method = "DELETE"
        /\ req[r].header = <<"Bearer", "t.forged">>
        /\ req[r].status = 401
        /\ takeoffs[1].exists

Names(atts) == [k \in 1..Len(atts) |-> atts[k].name]

Supplied(fs) == [k \in 1..Len(fs) |-> fs[k].originalname]

\* C3: an updateTakeoff that answers 200 leaves the document with its old
\* files and pdfPreview attachments, in their order, followed by one new
\* attachment per supplied file, in the order supplied (so none when no
\* file is attached); an updateTakeoff that answers anything else leaves
\* the store as it was.
C3_UpdateAppends ==
    [][\A r \in Requests :
          (req[r].method = "PUT" /\ req[r].pc # "done" /\ req'[r].pc = "done")
          => IF req'[r].status = 200
             THEN LET old == takeoffs[req[r].id]
                      new == takeoffs'[req[r].id]
                      nf  == Len(req[r].files)
                      np  == Len(req[r].pdfPreview)
                  IN /\ old.exists /\ new.exists
                     /\ Len(new.files) = Len(old.files) + nf
                     /\ SubSeq(new.files, 1, Len(old.files)) = old.files
                     /\ Names(SubSeq(new.files, Len(old.files) + 1, Len(new.files)))
                            = Supplied(req[r].files)
                     /\ Len(new.pdfPreview) = Len(old.pdfPreview) + np
                     /\ SubSeq(new.pdfPreview, 1, Len(old.pdfPreview)) = old.pdfPreview
                     /\ Names(SubSeq(new.pdfPreview, Len(old.pdfPreview) + 1,
                                     Len(new.pdfPreview)))
                            = Supplied(req[r].pdfPreview)
                     /\ \A id \in Ids \ {req[r].id} : takeoffs'[id] = takeoffs[id]
             ELSE takeoffs' = takeoffs]_vars

C3_Witness ==
    \E r \in Requests :
        /\ req[r].pc = "done"
        /\ req[r].method = "PUT"
        /\ req[r].status = 200
        /\ req[r].id = 1
        /\ Len(takeoffs[1].files) = 3
        /\ takeoffs[1].files[1] = Seeded.files[1]

\* C4: a create or update in which an upload is rejected after the request
\* has already put objects into the media store answers 500 and writes
\* nothing to the document store, and the objects it had uploaded stay in
\* the media store with no document referencing them.
C4_PartialUploadLeak ==
    \A r \in Requests :
        (/\ req[r].pc = "done"
         /\ req[r].method \in {"POST", "PUT"}
         /\ req[r].upFail
         /\ req[r].uploaded # {})
        => /\ req[r].status = 500
           /\ ~req[r].dbTouched
           /\ (req[r].uploaded \cup req[r].previews) \subseteq cloud
           /\ \A id \in Ids : \A a \in Attachments(takeoffs[id]) :
                 /\ a.pid \notin req[r].uploaded
                 /\ a.preview \notin req[r].previews

\* C5: preview generation that fails does not fail the request: a create
\* or update whose uploads and store call all succeed answers 201 (create)
\* or 200 / 404 (update) whatever the rasterizer did; a file of the `files`
\* group with MIME type application/pdf gets isPdf = true and a preview
\* that is null or an uploaded preview object, null where generation
\* failed; in buffer mode no attachment the request builds has a preview.
C5_PreviewFailureIsNotFatal ==
    \A r \in Requests :
        /\ (/\ req[r].pc = "done"
            /\ req[r].genFail # {}
            /\ ~req[r].upFail
            /\ ~req[r].dbFail)
           => req[r].status = IF req[r].method = "POST" THEN 201
                              ELSE IF req[r].dbTouched THEN 200 ELSE 404
        /\ \A k \in 1..Len(req[r].accFiles) :
              /\ req[r].files[k].mimetype = PDF =>
                    /\ req[r].accFiles[k].isPdf
                    /\ req[r].accFiles[k].preview \in {NoPid} \cup req[r].previews
              /\ <<"files", k>> \in req[r].genFail =>
                    req[r].accFiles[k].preview = NoPid
        /\ isServerless =>
              /\ req[r].previews = {}
              /\ \A a \in Range(req[r].accFiles) \cup Range(req[r].accPdf) :
                    a.preview = NoPid

C5_Witness ==
    \E r \in Requests :
        /\ req[r].pc = "done"
        /\ req[r].method = "POST"
        /\ req[r].genFail = {<<"files", 1>>}
        /\ req[r].status = 201
        /\ req[r].nfiles = 1
        /\ ~isServerless
        /\ takeoffs[req[r].id].files[1].isPdf
        /\ takeoffs[req[r].id].files[1].preview = NoPid

\* C9 (as claimed): every file of the pdfPreview group yields an attachment
\* with isPdf = true, and in disk mode generatePdfPreview is called for
\* every one of them, whatever its MIME type.
C9_PreviewAlwaysAttempted ==
    \A r \in Requests : \A k \in 1..Len(req[r].accPdf) :
        /\ req[r].accPdf[k].isPdf
        /\ ~isServerless => <<"pdfPreview", k>> \in req[r].genCalls

\* C9 (amended): every file of the pdfPreview group yields an attachment
\* with isPdf = true; in disk mode generatePdfPreview is called for exactly
\* those of them whose MIME type is application/pdf, and in buffer mode for
\* none.
C9_PreviewAttemptedForPdfMime ==
    \A r \in Requests : \A k \in 1..Len(req[r].accPdf) :
        /\ req[r].accPdf[k].isPdf
        /\ <<"pdfPreview", k>> \in req[r].genCalls
              <=> (~isServerless /\ req[r].pdfPreview[k].mimetype = PDF)

C9_Witness ==
    \E r \in Requests :
        /\ ~isServerless
        /\ req[r].method = "PUT"
        /\ Len(req[r].accPdf) = 1
        /\ req[r].pdfPreview[1].mimetype = DOCX
        /\ req[r].accPdf[1].isPdf
        /\ req[r].genCalls = {}

\* C10: once a deleteTakeoff and an updateTakeoff of the same record have
\* both answered 200 and the record is gone, no object the update uploaded
\* for an attachment is left in the media store.
C10_NoOrphanAfterRace ==
    \A u \in Requests, d \in Requests :
        (/\ req[u].pc = "done" /\ req[u].method = "PUT" /\ req[u].status = 200
         /\ req[d].pc = "done" /\ req[d].method = "DELETE" /\ req[d].status = 200
         /\ req[u].id = req[d].id
         /\ ~takeoffs[req[d].id].exists)
        => req[u].uploaded \cap cloud = {}

\* a create or update that has responded in disk mode
Responded(r) ==
    /\ req[r].pc = "done"
    /\ req[r].method \in {"POST", "PUT"}
    /\ ~isServerless

\* no temporary file whose remote upload completed and which the request
\* has not deleted since is in the uploads directory once the request has
\* responded, except a file whose unlink itself threw
UploadedFilesDeleted ==
    \A r \in Requests :
        Responded(r) =>
            \A p \in req[r].undeleted : p \in disk => p \in req[r].rmFail

\* a request in which an unlink threw, and no upload and no store call
\* failed, answers what it answers when every unlink succeeds
DeletionFailureIsSilent ==
    \A r \in Requests :
        (Responded(r) /\ req[r].authNext = 1 /\ req[r].rmFail # {}
            /\ ~req[r].upFail /\ ~req[r].dbFail)
        => req[r].status \in (IF req[r].method = "POST" THEN {201} ELSE {200, 404})

\* C11: in disk mode, every temporary file of a create or update (the
\* uploaded original, the generated preview PNG) whose remote upload has
\* completed is deleted by the time the request responds, whether it
\* succeeds or fails, deletion being best-effort; and a failed deletion
\* never changes what the request answers.
C11_TempFilesDeletedOnResponse ==
    /\ UploadedFilesDeleted
    /\ DeletionFailureIsSilent

----------------------------------------------------------------------------
(* SpecGuard: the middleware functions on one request *)

\* the ways a route may wire the guards in front of its handler
Chains == {<<"auth">>, <<"auth", "admin">>, <<"admin">>, <<"admin", "auth">>}

\* authorization headers, split at the blanks
GuardHeaders ==
    {<<>>, <<"Bearer">>, <<"Bearer", "">>}
        \cup {<<"Bearer", t>> : t \in Tokens}
        \cup {<<"Basic", t>> : t \in Tokens}
        \cup {<<t>> : t \in Tokens}

InitGuard ==
    /\ isServerless = FALSE
    /\ takeoffs = [id \in Ids |-> Absent]
    /\ cloud = {}
    /\ nextId = 2
    /\ req = [r \in Requests |-> IdleReq]
    /\ gone = [id \in Ids |-> {}]
    /\ list = NoList
    /\ disk = {}
    /\ now = 1
    /\ \E chain \in Chains, header \in GuardHeaders :
          guard = [NoGuard EXCEPT !.chain = chain, !.header = header, !.k = 1]

\* the router: guard k of the chain is due while nothing has responded
Due(name) ==
    /\ guard.k >= 1
    /\ guard.k <= Len(guard.chain)
    /\ guard.chain[guard.k] = name
    /\ guard.status = 0

\* calling next() k times hands control on k times; a guard that does not
\* call it leaves the request where it is
Advance(g, calls) == [g EXCEPT !.k = IF calls > 0 THEN @ + 1 ELSE 0]

GuardAuthenticate ==
    /\ Due("auth")
    /\ LET a == authenticate(guard.header, guard.user)
       IN guard' = Advance([guard EXCEPT !.user = a.user, !.status = a.status,
                               !.authNext = @ + a.next,
                               !.ran = Append(@, "auth")], a.next)
    /\ UNCHANGED <<isServerless, takeoffs, cloud, nextId, req, gone, list, disk, now>>

GuardAdminOnly ==
    /\ Due("admin")
    /\ LET b == adminOnly(guard.user)
       IN guard' = Advance([guard EXCEPT !.status = b.status,
                               !.adminNext = @ + b.next,
                               !.ran = Append(@, "admin")], b.next)
    /\ UNCHANGED <<isServerless, takeoffs, cloud, nextId, req, gone, list, disk, now>>

NextGuard == GuardAuthenticate \/ GuardAdminOnly

SpecGuard == InitGuard /\ [][NextGuard]_vars

----------------------------------------------------------------------------
(* SpecList: getAllTakeoffs on one stored collection and one query *)

MaxDocs  == 3      \* documents of an enumerated collection
MaxPage  == 2      \* largest page asked for
MaxLimit == 2      \* largest limit asked for

DefaultPage  == 1
DefaultLimit == 9

\* a string is the sequence of its characters
ToLowerChar(c) ==
    CASE c = "A" -> "a"
      [] c = "B" -> "b"
      [] c = "S" -> "s"
      [] OTHER   -> c

\* String.prototype.toLowerCase
ToLowerCase(str) == [k \in 1..Len(str) |-> ToLowerChar(str[k])]

\* String.prototype.split(sep), cur being the piece read so far
RECURSIVE SplitFrom(_, _, _)
SplitFrom(str, sep, cur) ==
    IF str = <<>> THEN <<cur>>
    ELSE IF Head(str) = sep
         THEN <<cur>> \o SplitFrom(Tail(str), sep, <<>>)
         ELSE SplitFrom(Tail(str), sep, Append(cur, Head(str)))

Split(str, sep) == SplitFrom(str, sep, <<>>)

\* String.prototype.trim
RECURSIVE TrimStart(_)
TrimStart(str) ==
    IF str # <<>> /\ Head(str) = " " THEN TrimStart(Tail(str)) ELSE str

RECURSIVE TrimEnd(_)
TrimEnd(str) ==
    IF str # <<>> /\ str[Len(str)] = " "
    THEN TrimEnd(SubSeq(str, 1, Len(str) - 1)) ELSE str

Trim(str) == TrimEnd(TrimStart(str))

\* the type list as it would be without toLowerCase
TypesMut(type) ==
    [k \in 1..Len(Split(type, ",")) |-> Trim(Split(type, ",")[k])]

\* type.split(',').map(t => t.trim().toLowerCase())
Types(type) ==
    [k \in 1..Len(Split(type, ",")) |-> ToLowerCase(Trim(Split(type, ",")[k]))]

\* an optional numeric query parameter
NoParam == [has |-> FALSE, val |-> 0]

Param(v) == [has |-> TRUE, val |-> v]

\* the filter object built from the query, applied to one document
\* (the enumerated queries carry no `search`)
Matches(doc, q) ==
    /\ q.zipCode # <<>> => doc.zipCode = q.zipCode
    /\ q.size # <<>> => doc.projectSize = ToLowerCase(q.size)
    /\ q.type # <<>> => doc.projectType \in Range(Types(q.type))
    /\ q.priceMin.has => doc.price >= q.priceMin.val
    /\ q.priceMax.has => doc.price <= q.priceMax.val

\* Takeoff.find(filter): the matching documents, in stored order
FindDocs(docs, q) == SelectSeq(docs, LAMBDA d : Matches(d, q))

CharCode(c) ==
    CASE c = " " -> 32 [] c = "," -> 44 [] c = "A" -> 65 [] c = "B" -> 66
      [] c = "S" -> 83 [] c = "a" -> 97 [] c = "b" -> 98 [] c = "s" -> 115
      [] OTHER -> 120

\* string comparison of the store: code unit by code unit
RECURSIVE StrLess(_, _)
StrLess(x, y) ==
    IF y = <<>> THEN FALSE
    ELSE IF x = <<>> THEN TRUE
    ELSE IF Head(x) # Head(y) THEN CharCode(Head(x)) < CharCode(Head(y))
    ELSE StrLess(Tail(x), Tail(y))

\* sortOption: whether document a sorts strictly before document b
SortsBefore(sort, a, b) ==
    CASE sort = "price_asc"  -> a.price < b.price
      [] sort = "price_desc" -> a.price > b.price
      [] sort = "size"       -> StrLess(a.projectSize, b.projectSize)
      [] OTHER               -> a.createdAt > b.createdAt

\* .sort(sortOption): documents with equal keys keep their stored order
RECURSIVE InsertDoc(_, _, _)
InsertDoc(sort, sorted, d) ==
    IF sorted = <<>> THEN <<d>>
    ELSE IF SortsBefore(sort, d, Head(sorted))
         THEN <<d>> \o sorted
         ELSE <<Head(sorted)>> \o InsertDoc(sort, Tail(sorted), d)

RECURSIVE SortDocs(_, _)
SortDocs(sort, docs) ==
    IF docs = <<>> THEN <<>>
    ELSE InsertDoc(sort, SortDocs(sort, SubSeq(docs, 1, Len(docs) - 1)),
                   docs[Len(docs)])

\* skip as it would be for 0-based pages
SkipCountMut(page, limit) == page * limit

\* const skip = (Number(page) - 1) * Number(limit)
SkipCount(page, limit) == (page - 1) * limit

\* .skip(n).limit(m) of the query: limit(0) is no limit
SkipLimit(docs, n, m) ==
    LET rest == SubSeq(docs, n + 1, Len(docs))
    IN IF m = 0 \/ m >= Len(rest) THEN rest ELSE SubSeq(rest, 1, m)

PageOf(q)  == IF q.page.has THEN q.page.val ELSE DefaultPage

LimitOf(q) == IF q.limit.has THEN q.limit.val ELSE DefaultLimit

\* getAllTakeoffs: status and body of the response; a negative skip makes
\* the store reject the query
getAllTakeoffs(docs, q) ==
    LET skip == SkipCount(PageOf(q), LimitOf(q))
    IN IF skip < 0
       THEN [status |-> 500, body |-> <<>>]
       ELSE [status |-> 200,
             body |-> SkipLimit(SortDocs(q.sort, FindDocs(docs, q)), skip, LimitOf(q))]

\* the kinds of document of the enumerated collections
DocKinds ==
    {[price |-> 1, projectType |-> <<"a">>], [price |-> 2, projectType |-> <<"A">>],
     [price |-> 2, projectType |-> <<"b">>], [price |-> 3, projectType |-> <<"a">>]}

AsDocs(kinds) ==
    [k \in 1..Len(kinds) |->
        [price |-> kinds[k].price, projectType |-> kinds[k].projectType,
         projectSize |-> <<"s">>, zipCode |-> <<"x">>, createdAt |-> k]]

\* a collection of more documents than the default page holds
BigStore ==
    [k \in 1..(DefaultLimit + 2) |->
        [price |-> (k % 3) + 1, projectType |-> <<"a">>]]

Stores ==
    {AsDocs(ks) : ks \in UNION {[1..n -> DocKinds] : n \in 0..MaxDocs}}
        \cup {AsDocs(BigStore)}

TypeQueries ==
    {<<>>, <<"a">>, <<"A", ",", "b">>, <<" ", "B", " ", ",", "a">>}

Queries ==
    [zipCode : {<<>>}, size : {<<>>, <<"S">>}, type : TypeQueries,
     priceMin : {NoParam, Param(2)}, priceMax : {NoParam, Param(2)},
     sort : {"", "price_asc", "price_desc", "size"},
     page : {NoParam} \cup {Param(v) : v \in 1..MaxPage},
     limit : {NoParam} \cup {Param(v) : v \in 1..MaxLimit}]

InitList ==
    /\ isServerless = FALSE
    /\ takeoffs = [id \in Ids |-> Absent]
    /\ cloud = {}
    /\ nextId = 2
    /\ req = [r \in Requests |-> IdleReq]
    /\ gone = [id \in Ids |-> {}]
    /\ guard = NoGuard
    /\ disk = {}
    /\ now = 1
    /\ \E docs \in Stores, q \in Queries :
          list = [docs |-> docs, query |-> q, pc |-> "request",
                  status |-> 0, body |-> <<>>]

ListTakeoffs ==
    /\ list.pc = "request"
    /\ LET res == getAllTakeoffs(list.docs, list.query)
       IN list' = [list EXCEPT !.pc = "done", !.status = res.status,
                               !.body = res.body]
    /\ UNCHANGED <<isServerless, takeoffs, cloud, nextId, req, gone, guard, disk, now>>

NextList == ListTakeoffs

SpecList == InitList /\ [][NextList]_vars

----------------------------------------------------------------------------
(* Properties of SpecList *)

Min(a, b) == IF a <= b THEN a ELSE b

\* C6: the response is 200 and holds exactly the documents at positions
\* (p-1)*n+1 .. p*n of the filtered and sorted result (p, n the page and
\* limit asked for, 1 and 9 when not given): the result holds exactly the
\* stored documents within the inclusive price bounds (and the other
\* filters), in the order of the chosen sort; a page past the end is an
\* empty array.
C6_PageIsSliceOfSortedResult ==
    list.pc = "done" =>
        LET q    == list.query
            p    == IF q.page.has THEN q.page.val ELSE 1
            n    == IF q.limit.has THEN q.limit.val ELSE 9
            full == SortDocs(q.sort, FindDocs(list.docs, q))
        IN /\ list.status = 200
           /\ list.body = SubSeq(full, (p - 1) * n + 1, Min(p * n, Len(full)))
           /\ (p - 1) * n >= Len(full) => list.body = <<>>
           /\ Len(list.body) <= n
           /\ q.type = <<>> =>
                 \A d \in Range(list.docs) :
                    d \in Range(full) <=>
                       /\ q.priceMin.has => d.price >= q.priceMin.val
                       /\ q.priceMax.has => d.price <= q.priceMax.val
                       /\ q.size # <<>> => d.projectSize = ToLowerCase(q.size)
           /\ \A i \in 1..Len(full) : \A j \in 1..Len(full) :
                 i < j =>
                    CASE q.sort = "price_asc"  -> full[i].price <= full[j].price
                      [] q.sort = "price_desc" -> full[i].price >= full[j].price
                      [] q.sort = ""           -> full[i].createdAt > full[j].createdAt
                      [] OTHER                 -> TRUE

C6_Witness ==
    /\ list.pc = "done"
    /\ list.query.page = Param(2)
    /\ list.query.limit = Param(2)
    /\ list.query.sort = "price_desc"
    /\ list.query.priceMax = Param(2)
    /\ Len(list.docs) = 3
    /\ Len(list.body) = 1
    /\ list.body[1].price = 1

\* the documents a query returns when the page holds the whole result
WholeResult == PageOf(list.query) = 1 /\ Len(list.docs) <= LimitOf(list.query)

PriceInRange(d, q) ==
    /\ q.priceMin.has => d.price >= q.priceMin.val
    /\ q.priceMax.has => d.price <= q.priceMax.val
    /\ q.size # <<>> => d.projectSize = ToLowerCase(q.size)

\* C7 (as claimed): with type=a,b the documents returned are exactly those
\* whose project type equals a or b when both are compared without regard
\* to case, whatever the casing of the query and of the stored value.
C7_TypeFilterIgnoresCase ==
    (list.pc = "done" /\ list.query.type # <<>> /\ WholeResult) =>
        Range(list.body) =
            {d \in Range(list.docs) :
                /\ PriceInRange(d, list.query)
                /\ \E k \in 1..Len(Split(list.query.type, ",")) :
                      ToLowerCase(Trim(Split(list.query.type, ",")[k]))
                         = ToLowerCase(d.projectType)}

\* C7 (amended): with type=a,b the documents returned are exactly those
\* whose stored project type is identical to the trimmed, lower-cased a or
\* b: the casing of the query value does not matter, and a document whose
\* stored project type has an upper-case letter is never returned.
C7_TypeFilterLowersQueryOnly ==
    (list.pc = "done" /\ list.query.type # <<>> /\ WholeResult) =>
        /\ Range(list.body) =
              {d \in Range(list.docs) :
                  /\ PriceInRange(d, list.query)
                  /\ \E k \in 1..Len(Split(list.query.type, ",")) :
                        ToLowerCase(Trim(Split(list.query.type, ",")[k]))
                           = d.projectType}
        /\ \A d \in Range(list.body) : d.projectType = ToLowerCase(d.projectType)

C7_Witness ==
    /\ list.pc = "done"
    /\ list.query.type = <<" ", "B", " ", ",", "a">>
    /\ WholeResult
    /\ Len(list.docs) = 3
    /\ \E d \in Range(list.docs) : d.projectType = <<"A">>
    /\ Len(list.body) = 2
    /\ {d.projectType : d \in Range(list.body)} = {<<"a">>, <<"b">>}

----------------------------------------------------------------------------
(* Properties of SpecGuard *)

\* C8: whenever adminOnly has run, it answered 403 without calling next()
\* if req.user was absent or its role was not "admin", and otherwise called
\* next() once and sent nothing; run with no successful authenticate
\* before it, it answered 403.
C8_AdminOnly ==
    (guard.ran # <<>> /\ guard.ran[Len(guard.ran)] = "admin") =>
        /\ IF ~guard.user.present \/ guard.user.role # "admin"
           THEN guard.status = 403 /\ guard.adminNext = 0
           ELSE guard.status = 0 /\ guard.adminNext = 1
        /\ guard.authNext = 0 => guard.status = 403

C8_Witness ==
    /\ guard.ran = <<"admin">>
    /\ guard.header = <<"Bearer", "t.admin">>
    /\ guard.status = 403
    /\ guard.adminNext = 0

====
